---- MODULE Spec2Model ----
(***************************************************************************)
(* State-machine model of src/SearchEngine.py (SearchEngine.search and the *)
(* private stages it awaits) and of src/Profile.py (Profile.__get_main).   *)
(*                                                                         *)
(* Words are integers: Lower(w) = |w|, so -3 is the word 3 written in      *)
(* upper case.  A text, a query and a keyword are sequences of words.      *)
(* Floating point is modelled in fixed point: idf times 100, unit vectors  *)
(* times 1000.                                                             *)
(***************************************************************************)
EXTENDS Integers, Sequences, FiniteSets, TLC

\* ------------------------------------------------------------- bounds
NumUrls == 2          \* profile urls the storage may hold: 1..NumUrls
MaxTopN == 2          \* top_n ranges over -1..MaxTopN
MaxContentLen == 1    \* comma-separated cells in one completion
MaxStorageOps == 1    \* storage changes in one behaviour
MaxDepthArg == 4      \* recursive / recursive_max arguments of a direct call
MaxElements == 3      \* marked-up elements of one page
MaxNameElements == 4  \* elements of a page made of name regions only
MaxKeywords == 2      \* keywords of a direct call of __rank_by_keywords

\* ---------------------------------------------------- program constants
RecursiveMaxDefault == 3     \* recursive_max: int = 3

Calls == {1, 2}              \* concurrent search invocations on one engine
Urls == 1..NumUrls
StopWords == {1}             \* TfidfVectorizer(stop_words='english')
SortedWords == <<1, 2, 3>>   \* the lower-case words of the texts, in sorted order

\* ------------------------------------------------------------- helpers
Min(a, b) == IF a < b THEN a ELSE b
Max(a, b) == IF a > b THEN a ELSE b
Range(s) == {s[i] : i \in DOMAIN s}
Reverse(s) == [i \in 1..Len(s) |-> s[Len(s) + 1 - i]]
SeqsUpTo(S, n) == UNION {[1..k -> S] : k \in 0..n}

RECURSIVE SumSeq(_)
SumSeq(s) == IF s = <<>> THEN 0 ELSE Head(s) + SumSeq(Tail(s))

RECURSIVE SqrtSearch(_, _, _)
SqrtSearch(x, lo, hi) ==
    IF lo = hi THEN lo
    ELSE LET mid == (lo + hi + 1) \div 2
         IN  IF mid * mid <= x THEN SqrtSearch(x, mid, hi)
             ELSE SqrtSearch(x, lo, mid - 1)
\* floor of the square root (np.sqrt in fixed point)
ISqrt(x) == SqrtSearch(x, 0, 8192)

\* str.lower() of one word, and of a text
Lower(w) == IF w < 0 THEN 0 - w ELSE w
LowerText(t) == [i \in DOMAIN t |-> Lower(t[i])]

\* seq[:k] of Python: the first k items, or all but the last -k when k < 0
Slice(s, k) ==
    SubSeq(s, 1, IF k >= 0 THEN Min(k, Len(s)) ELSE Max(0, Len(s) + k))

\* `needle in haystack` of Python strings, at word granularity
IsSubstring(needle, haystack) ==
    \E i \in 1..(Len(haystack) - Len(needle) + 1) :
        SubSeq(haystack, i, i + Len(needle) - 1) = needle

\* ------------------------------------------------------------ universe
\* str(profile) of the profiles the storage can hold, by url
Catalogue == << <<2, 2, 3>>, <<-3, 1, 3>>, <<2, 1>> >>
TextOf(u) == Catalogue[((u - 1) % Len(Catalogue)) + 1]

\* a collection: profiles (by url), no url twice
Collections ==
    {s \in SeqsUpTo(Urls, NumUrls) : \A i, j \in DOMAIN s : i # j => s[i] # s[j]}

\* a record whose str() raises: not a Profile of src/Profile.py, whose str()
\* is the default repr and cannot fail, but accepted by __rank_by_keywords
Unscorable == {0}

\* the lists __rank_by_keywords can be called with
RankCollections ==
    {s \in SeqsUpTo(Urls \cup Unscorable, NumUrls + 1) :
        \A i, j \in DOMAIN s : i # j => s[i] # s[j]}

Queries == { <<3, 1>>, <<-2, 3>>, <<2, 3, 3>> }
\* queries of a direct call of __tf_idf_rank; <<1>> has stop words only
RankQueries == { <<1>>, <<2>>, <<-3, 2>> }
TopNs == (0 - 1)..MaxTopN

\* one cell of a completion, between two commas: a keyword or blank
Cells == { <<>>, <<-3>>, <<2, 3>> }
Contents == SeqsUpTo(Cells, MaxContentLen) \ {<<>>}
KeywordLists == SeqsUpTo(Cells \ {<<>>}, MaxKeywords)

\* ----------------------------------------------------- KeywordExpander
\* [keyword.strip() for keyword in content.split(',') if keyword.strip()]
ParseKeywords(content) ==
    LET NonBlank(cell) == cell # <<>> IN SelectSeq(content, NonBlank)

\* ------------------------------------------------------- LexicalRanker
\* mutant: the comparison without lower()
KeywordCountCaseSensitive(u, keywords) ==
    LET hit == [i \in DOMAIN keywords |->
                  IF IsSubstring(keywords[i], TextOf(u)) THEN 1 ELSE 0]
    IN  SumSeq(hit)

\* sum(keyword.lower() in profile_text.lower() for keyword in keywords)
KeywordCount(u, keywords) ==
    LET hit == [i \in DOMAIN keywords |->
                  IF IsSubstring(LowerText(keywords[i]), LowerText(TextOf(u)))
                  THEN 1 ELSE 0]
    IN  SumSeq(hit)

\* mutant: sorted ascending and then reversed, which reverses equal counts
SortByCountAscReversed(profiles, count) ==
    LET n == Len(profiles)
        Pos(i) == Cardinality({j \in 1..n :
                     count[j] > count[i] \/ (count[j] = count[i] /\ j > i)}) + 1
    IN  [k \in 1..n |-> profiles[CHOOSE i \in 1..n : Pos(i) = k]]

\* list.sort(key=count, reverse=True): stable, descending
SortByCountDesc(profiles, count) ==
    LET n == Len(profiles)
        Pos(i) == Cardinality({j \in 1..n :
                     count[j] > count[i] \/ (count[j] = count[i] /\ j < i)}) + 1
    IN  [k \in 1..n |-> profiles[CHOOSE i \in 1..n : Pos(i) = k]]

\* lines 93-98: str(profile) raises for some record; the handler formats
\* profile.get_data('url'), and __data has no key 'url': KeyError leaves the
\* handler, the loop and __rank_by_keywords
ScoringFails(profiles) == \E i \in DOMAIN profiles : profiles[i] \in Unscorable

RankByKeywords(profiles, keywords) ==
    SortByCountDesc(profiles,
                    [i \in DOMAIN profiles |-> KeywordCount(profiles[i], keywords)])

\* --------------------------------------------------- StatisticalRanker
\* ln(k) times 100, k = 1..9
LnTimes100 == <<0, 69, 110, 139, 161, 179, 195, 208, 220>>

\* smooth idf of sklearn: ln((1 + n) / (1 + df)) + 1
Idf(n, df) == LnTimes100[1 + n] - LnTimes100[1 + df] + 100

\* the analyzer: lower-case the words and drop the stop words
Analyze(text) ==
    LET Kept(w) == w \notin StopWords IN SelectSeq(LowerText(text), Kept)

CountOf(w, tokens) == Cardinality({i \in DOMAIN tokens : tokens[i] = w})

\* documents = [str(profile) for profile in profiles]
Documents(profiles) == [i \in DOMAIN profiles |-> TextOf(profiles[i])]

\* vocabulary_ of a fit: the terms of the documents, in sorted order
Vocabulary(documents) ==
    LET present == UNION {Range(Analyze(documents[i])) : i \in DOMAIN documents}
        InDocs(w) == w \in present
    IN  SelectSeq(SortedWords, InDocs)

NotFitted == [vocabulary |-> <<>>, idf |-> <<>>]

\* the state fit() leaves in the vectorizer
Fit(documents) ==
    LET vocab == Vocabulary(documents)
        n == Len(documents)
        Df(w) == Cardinality({i \in DOMAIN documents :
                                 w \in Range(Analyze(documents[i]))})
    IN  [vocabulary |-> vocab,
         idf |-> [k \in DOMAIN vocab |-> Idf(n, Df(vocab[k]))]]

\* l2 normalisation of one row; a zero row is left as it is
Normalize(v) ==
    LET norm == ISqrt(SumSeq([k \in DOMAIN v |-> v[k] * v[k]]))
    IN  IF norm = 0 THEN v ELSE [k \in DOMAIN v |-> (v[k] * 1000) \div norm]

\* transform() with the fitted state `fitted`: one tf-idf row per text
Transform(fitted, texts) ==
    [i \in DOMAIN texts |->
        Normalize([k \in DOMAIN fitted.vocabulary |->
            CountOf(fitted.vocabulary[k], Analyze(texts[i])) * fitted.idf[k]])]

Dot(a, b) == SumSeq([k \in DOMAIN a |-> a[k] * b[k]])

\* cosine_similarity(query_vector, tfidf_matrix).flatten()
CosineSimilarity(query_vector, tfidf_matrix) ==
    [i \in DOMAIN tfidf_matrix |->
        Dot(Normalize(query_vector), Normalize(tfidf_matrix[i])) \div 1000]

\* np.argsort: indices in ascending order of value, equal values by index
ArgSort(values) ==
    LET n == Len(values)
        Pos(i) == Cardinality({j \in 1..n :
                     values[j] < values[i] \/ (values[j] = values[i] /\ j < i)}) + 1
    IN  [k \in 1..n |-> CHOOSE i \in 1..n : Pos(i) = k]

\* mutant: the [::-1] is left out
SortedIndicesAscending(cosine_similarities) == ArgSort(cosine_similarities)

\* np.argsort(cosine_similarities)[::-1]
SortedIndices(cosine_similarities) == Reverse(ArgSort(cosine_similarities))

\* [profiles[index] for index in sorted_indices[:top_n]]
TopProfiles(profiles, cosine_similarities, top_n) ==
    LET top_profile_indices == Slice(SortedIndices(cosine_similarities), top_n)
    IN  [k \in DOMAIN top_profile_indices |-> profiles[top_profile_indices[k]]]

\* ---------------------------------------------------------------- state
VARIABLES
    storage,      \* what Database.get_profiles() returns now
    storageOps,   \* storage changes so far
    vectorizer,   \* self.__vectorizer: the one TfidfVectorizer of the engine
    call,         \* call[c]: the frame of invocation c
    soup,         \* Profile.__soup: the parsed page
    profile_data, \* Profile.__data
    constructed   \* Profile.__init__ has run __get_main

engineVars == <<storage, storageOps, vectorizer, call>>
pageVars == <<soup, profile_data, constructed>>
vars == <<storage, storageOps, vectorizer, call, soup, profile_data, constructed>>

\* A frame.  pc: idle, llm (a completion request is in the executor), fetch1
\* and lex (__simple_rank), rank (__rank_by_keywords called on its own),
\* fetch2, fit, transform and cosine (__tf_idf_rank),
\* done (returned), raised (an exception reached the caller).
\* The locals of __query_to_keywords and __simple_rank are gone when
\* __simple_rank returns; profiles is the local of __simple_rank and then of
\* __tf_idf_rank; ranked_profiles is the local of search.
\* History fields, read by the properties only: max_depth (the caller's
\* recursive_max), requests, answered, response (the last reply), lexical
\* (what __simple_rank returned), no_keywords, lex_done, stat_begun,
\* entry_depth (the caller's recursive), refit (the vectorizer held the fit
\* of other documents when this invocation fitted its own).
IdleCall ==
    [pc |-> "idle", mode |-> "none", query |-> <<>>, top_n |-> 0,
     recursive |-> 0, recursive_max |-> 0, max_depth |-> 0,
     requests |-> 0, answered |-> 0, response |-> "none", keywords |-> <<>>,
     profiles |-> <<>>, ranked_profiles |-> <<>>,
     lexical |-> <<>>, no_keywords |-> FALSE, lex_done |-> FALSE,
     stat_begun |-> FALSE, entry_depth |-> 0, refit |-> FALSE,
     tfidf_matrix |-> <<>>, query_vector |-> <<>>, cosine_similarities |-> <<>>]

\* ---------------------------------------------------- ProfileExtractor
\* A text is a sequence of characters; 0 is white space and -1 stands for
\* the scheme "mailto:".  An optional value (an element that may be missing,
\* an attribute that may be None) is <<>> or <<value>>.
NA == <<78, 47, 65>>                       \* 'N/A'
Texts == { <<5>>, <<0, 6, 0>> }
Hrefs == { <<-1, 7, 0>>, <<-1, 9, -1>>, <<8>> }

\* elements found by id, by tag name or by class, one of each at most
IdMarkers == {"bannername", "titlepart1", "titlepart2", "titlepart3",
              "titlepart4", "titlepart5", "ot3", "ot5", "ot6"}
ClassMarkers == {"profile-name", "department-info", "contact-email",
                 "location-info", "summary-text"}
SingleMarkers == IdMarkers \cup ClassMarkers \cup {"h1"}
\* where an <a> or a <p> can stand
AnchorPlaces == {"ul.linklist", ".affiliations", "body"}
ParagraphPlaces == {"#customContent", "#latestPubsContainer .latestPubListing",
                    ".publications-listing"}

EmptySoup ==
    [element |-> [m \in SingleMarkers |-> <<>>],
     anchors |-> <<>>,
     paragraphs |-> [place \in ParagraphPlaces |-> <<>>]]

SoupSize(sp) ==
    Cardinality({m \in SingleMarkers : sp.element[m] # <<>>})
      + Len(sp.anchors)
      + SumSeq([k \in 1..3 |->
           Len(sp.paragraphs[<<"#customContent",
                               "#latestPubsContainer .latestPubListing",
                               ".publications-listing">>[k]])])

\* str.strip()
Strip(t) ==
    LET inked == {i \in DOMAIN t : t[i] # 0}
    IN  IF inked = {} THEN <<>>
        ELSE SubSeq(t, CHOOSE i \in inked : \A j \in inked : i <= j,
                       CHOOSE i \in inked : \A j \in inked : i >= j)

\* sep.join(parts)
RECURSIVE Join(_, _)
Join(parts, sep) ==
    IF parts = <<>> THEN <<>>
    ELSE IF Len(parts) = 1 THEN parts[1]
    ELSE parts[1] \o sep \o Join(Tail(parts), sep)

\* href.replace('mailto:', '')
DropMailto(href) == LET NotScheme(ch) == ch # -1 IN SelectSeq(href, NotScheme)

\* [soup.find(id=part_id).text.strip() for part_id in ids if soup.find(id=part_id)]
Parts(sp, ids) ==
    LET Found(m) == sp.element[m] # <<>>
        found == SelectSeq(ids, Found)
    IN  [k \in DOMAIN found |-> Strip(sp.element[found[k]][1])]

\* soup.select(place + ' a') and soup.select(place + ' p'), in document order
AnchorsIn(sp, place) ==
    LET Inside(a) == a.place = place IN SelectSeq(sp.anchors, Inside)

\* mutant: the h1 is preferred to the banner regions
ExtractNameHeadingFirst(sp) ==
    LET name_parts == Parts(sp, <<"bannername", "titlepart1", "titlepart2",
                                  "titlepart3">>)
    IN  IF sp.element["h1"] # <<>> THEN Strip(sp.element["h1"][1])
        ELSE IF name_parts # <<>> THEN Join(name_parts, <<0>>)
        ELSE IF sp.element["profile-name"] # <<>>
             THEN Strip(sp.element["profile-name"][1])
        ELSE NA

\* lines 35-42: the banner regions, else the h1, else .profile-name
ExtractName(sp) ==
    LET name_parts == Parts(sp, <<"bannername", "titlepart1", "titlepart2",
                                  "titlepart3">>)
    IN  IF name_parts # <<>> THEN Join(name_parts, <<0>>)
        ELSE IF sp.element["h1"] # <<>> THEN Strip(sp.element["h1"][1])
        ELSE IF sp.element["profile-name"] # <<>>
             THEN Strip(sp.element["profile-name"][1])
        ELSE NA

\* lines 45-49
ExtractDepartment(sp) ==
    LET department_parts == Parts(sp, <<"titlepart4", "titlepart5">>)
    IN  IF department_parts # <<>> THEN Join(department_parts, <<44, 0>>)
        ELSE IF sp.element["department-info"] # <<>>
             THEN Strip(sp.element["department-info"][1])
        ELSE NA

\* mutant: the .contact-email container is preferred to the mail-link
ExtractContactContainerFirst(sp) ==
    LET IsMail(a) == a.href # <<>> /\ a.href[1] # <<>> /\ Head(a.href[1]) = -1
        mail == SelectSeq(sp.anchors, IsMail)
    IN  IF sp.element["contact-email"] # <<>>
        THEN Strip(sp.element["contact-email"][1])
        ELSE IF mail # <<>> THEN Strip(DropMailto(mail[1].href[1]))
        ELSE NA

\* lines 52-58: select_one('a[href^="mailto:"]'), else .contact-email
ExtractContact(sp) ==
    LET IsMail(a) == a.href # <<>> /\ a.href[1] # <<>> /\ Head(a.href[1]) = -1
        mail == SelectSeq(sp.anchors, IsMail)
    IN  IF mail # <<>> THEN Strip(DropMailto(mail[1].href[1]))
        ELSE IF sp.element["contact-email"] # <<>>
             THEN Strip(sp.element["contact-email"][1])
        ELSE NA

\* lines 61-65
ExtractLocation(sp) ==
    LET location_parts == Parts(sp, <<"ot3", "ot5", "ot6">>)
    IN  IF location_parts # <<>> THEN Join(location_parts, <<44, 0>>)
        ELSE IF sp.element["location-info"] # <<>>
             THEN Strip(sp.element["location-info"][1])
        ELSE NA

\* lines 68-74: select() and get() do not raise, so the except branch with
\* '.affiliations a' is never taken; get("href") is None without the attribute
ExtractLinks(sp) ==
    LET as == AnchorsIn(sp, "ul.linklist")
    IN  [k \in DOMAIN as |-> as[k].href]

\* lines 77-84: " ".join of the stripped paragraphs; the join of none is '',
\* nothing raises, so the except branch with .summary-text is never taken
ExtractSummary(sp) ==
    LET summary_sections == sp.paragraphs["#customContent"]
    IN  Join([k \in DOMAIN summary_sections |-> Strip(summary_sections[k])], <<0>>)

\* lines 87-94
ExtractPublications(sp) ==
    LET publications_list == sp.paragraphs["#latestPubsContainer .latestPubListing"]
    IN  [k \in DOMAIN publications_list |-> Strip(publications_list[k])]

\* lines 24-32
DefaultData ==
    [name |-> NA, department |-> NA, contact |-> NA, location |-> NA,
     links |-> <<>>, summary |-> NA, publications |-> <<>>]

\* Profile.__get_main
GetMainData(sp) ==
    [name |-> ExtractName(sp), department |-> ExtractDepartment(sp),
     contact |-> ExtractContact(sp), location |-> ExtractLocation(sp),
     links |-> ExtractLinks(sp), summary |-> ExtractSummary(sp),
     publications |-> ExtractPublications(sp)]

\* the page holds one more element found by id, tag or class
ParseElement(m, text, limit) ==
    /\ ~constructed
    /\ SoupSize(soup) < limit
    /\ soup.element[m] = <<>>
    /\ soup' = [soup EXCEPT !.element[m] = <<text>>]
    /\ UNCHANGED <<profile_data, constructed, engineVars>>

\* the page holds one more <a>, with or without href
ParseAnchor(href, place) ==
    /\ ~constructed
    /\ SoupSize(soup) < MaxElements
    /\ soup' = [soup EXCEPT !.anchors = Append(@, [href |-> href, place |-> place])]
    /\ UNCHANGED <<profile_data, constructed, engineVars>>

\* the page holds one more <p>
ParseParagraph(place, text) ==
    /\ ~constructed
    /\ SoupSize(soup) < MaxElements
    /\ soup' = [soup EXCEPT !.paragraphs[place] = Append(@, text)]
    /\ UNCHANGED <<profile_data, constructed, engineVars>>

\* self.__data = self.__get_main()
GetMain ==
    /\ ~constructed
    /\ profile_data' = GetMainData(soup)
    /\ constructed' = TRUE
    /\ UNCHANGED <<soup, engineVars>>

InitPage ==
    /\ soup = EmptySoup
    /\ profile_data = DefaultData
    /\ constructed = FALSE

\* ------------------------------------------------------------------ Init
Init ==
    /\ storage \in Collections
    /\ storageOps = 0
    /\ vectorizer = NotFitted
    /\ call = [c \in Calls |-> IdleCall]
    /\ InitPage

\* ----------------------------------------------------- KeywordExpander
\* return of __query_to_keywords to its caller: __simple_rank goes on to
\* get_profiles, a direct caller has its list
FinishExpansion(f, keywords) ==
    [f EXCEPT !.keywords = keywords,
              !.pc = IF f.mode = "search" THEN "fetch1" ELSE "done"]

\* entry of __query_to_keywords(query, recursive, recursive_max)
EnterExpansion(f, recursive, recursive_max) ==
    IF recursive > recursive_max
    THEN FinishExpansion([f EXCEPT !.recursive = recursive,
                                   !.recursive_max = recursive_max], <<>>)
    ELSE [f EXCEPT !.pc = "llm", !.recursive = recursive,
                   !.recursive_max = recursive_max, !.requests = @ + 1]

\* search(query, top_n): __simple_rank, then __query_to_keywords(query)
StartSearch(c, query, top_n) ==
    /\ call[c].pc = "idle"
    /\ call' = [call EXCEPT ![c] =
          EnterExpansion([IdleCall EXCEPT !.mode = "search", !.query = query,
                                          !.top_n = top_n,
                                          !.max_depth = RecursiveMaxDefault],
                         0, RecursiveMaxDefault)]
    /\ UNCHANGED <<storage, storageOps, vectorizer, pageVars>>

\* __query_to_keywords(query, recursive, recursive_max) called on its own
StartExpand(c, query, recursive, recursive_max) ==
    /\ call[c].pc = "idle"
    /\ call' = [call EXCEPT ![c] =
          EnterExpansion([IdleCall EXCEPT !.mode = "expand", !.query = query,
                                          !.max_depth = recursive_max,
                                          !.entry_depth = recursive],
                         recursive, recursive_max)]
    /\ UNCHANGED <<storage, storageOps, vectorizer, pageVars>>

\* the completion has content: split on commas, strip, drop the blanks
LLMContent(c, content) ==
    /\ call[c].pc = "llm"
    /\ call' = [call EXCEPT ![c] =
          FinishExpansion([@ EXCEPT !.answered = @ + 1, !.response = "content"],
                          ParseKeywords(content))]
    /\ UNCHANGED <<storage, storageOps, vectorizer, pageVars>>

\* mutant: the retry does not pass its depth on either
LLMMalformedSameDepth(c) ==
    /\ call[c].pc = "llm"
    /\ call' = [call EXCEPT ![c] =
          EnterExpansion([@ EXCEPT !.answered = @ + 1, !.response = "malformed"],
                         0, RecursiveMaxDefault)]
    /\ UNCHANGED <<storage, storageOps, vectorizer, pageVars>>

\* no choices or no content: self.__query_to_keywords(query, recursive + 1),
\* which does not pass recursive_max on
LLMMalformed(c) ==
    /\ call[c].pc = "llm"
    /\ call' = [call EXCEPT ![c] =
          EnterExpansion([@ EXCEPT !.answered = @ + 1, !.response = "malformed"],
                         call[c].recursive + 1, RecursiveMaxDefault)]
    /\ UNCHANGED <<storage, storageOps, vectorizer, pageVars>>

\* mutant: a transport error is retried like malformed content
LLMErrorRetried(c) ==
    /\ call[c].pc = "llm"
    /\ call' = [call EXCEPT ![c] =
          EnterExpansion([@ EXCEPT !.answered = @ + 1, !.response = "error"],
                         call[c].recursive + 1, RecursiveMaxDefault)]
    /\ UNCHANGED <<storage, storageOps, vectorizer, pageVars>>

\* except Exception: log and return []
LLMError(c) ==
    /\ call[c].pc = "llm"
    /\ call' = [call EXCEPT ![c] =
          FinishExpansion([@ EXCEPT !.answered = @ + 1, !.response = "error"],
                          <<>>)]
    /\ UNCHANGED <<storage, storageOps, vectorizer, pageVars>>

\* ------------------------------------------------------- __simple_rank
\* profiles = await self.__db.get_profiles()
GetProfilesSimple(c) ==
    /\ call[c].pc = "fetch1"
    /\ call' = [call EXCEPT ![c].profiles = storage, ![c].pc = "lex"]
    /\ UNCHANGED <<storage, storageOps, vectorizer, pageVars>>

\* mutant: __simple_rank is called without await, so search goes on while
\* the lexical stage has not run
SimpleRankNotAwaited(c) ==
    /\ call[c].pc = "lex"
    /\ call' = [call EXCEPT ![c].pc = "fetch2"]
    /\ UNCHANGED <<storage, storageOps, vectorizer, pageVars>>

\* ranked_profiles = (await self.__rank_by_keywords(profiles, keywords))[:top_n]
\* and back in search, which goes on to __tf_idf_rank
SimpleRank(c) ==
    /\ call[c].pc = "lex"
    /\ LET ranked == Slice(RankByKeywords(call[c].profiles, call[c].keywords),
                           call[c].top_n)
       IN  IF ScoringFails(call[c].profiles)
           THEN call' = [call EXCEPT ![c].pc = "raised"]
           ELSE call' = [call EXCEPT ![c] =
             [@ EXCEPT !.ranked_profiles = ranked, !.lexical = ranked,
                       !.no_keywords = (call[c].keywords = <<>>),
                       !.lex_done = TRUE,
                       !.keywords = <<>>, !.response = "none",
                       !.requests = 0, !.answered = 0,
                       !.recursive = 0, !.recursive_max = 0,
                       !.pc = "fetch2"]]
    /\ UNCHANGED <<storage, storageOps, vectorizer, pageVars>>

\* __rank_by_keywords(profiles, keywords) called on its own
StartRank(c, profiles, keywords) ==
    /\ call[c].pc = "idle"
    /\ call' = [call EXCEPT ![c] =
          [IdleCall EXCEPT !.mode = "rank", !.profiles = profiles,
                           !.keywords = keywords, !.pc = "rank"]]
    /\ UNCHANGED <<storage, storageOps, vectorizer, pageVars>>

\* lines 90-104: count, sort, return the profiles
RankProfiles(c) ==
    /\ call[c].pc = "rank"
    /\ IF ScoringFails(call[c].profiles)
       THEN call' = [call EXCEPT ![c].pc = "raised"]
       ELSE call' = [call EXCEPT
                ![c].ranked_profiles =
                    RankByKeywords(call[c].profiles, call[c].keywords),
                ![c].pc = "done"]
    /\ UNCHANGED <<storage, storageOps, vectorizer, pageVars>>

\* ------------------------------------------------------- __tf_idf_rank
\* __tf_idf_rank(query, top_n) called on its own
StartTfIdf(c, query, top_n) ==
    /\ call[c].pc = "idle"
    /\ call' = [call EXCEPT ![c] =
          [IdleCall EXCEPT !.mode = "tfidf", !.query = query, !.top_n = top_n,
                           !.pc = "fetch2"]]
    /\ UNCHANGED <<storage, storageOps, vectorizer, pageVars>>

\* profiles = await self.__db.get_profiles()
GetProfilesTfIdf(c) ==
    /\ call[c].pc = "fetch2"
    /\ call' = [call EXCEPT ![c].profiles = storage, ![c].stat_begun = TRUE,
                            ![c].pc = "fit"]
    /\ UNCHANGED <<storage, storageOps, vectorizer, pageVars>>

\* mutant: the vocabulary is fitted once and kept (transform, not fit_transform)
ComputeTfidfMatrixCached(c) ==
    /\ call[c].pc = "fit"
    /\ LET documents == Documents(call[c].profiles)
           fitted == IF vectorizer = NotFitted THEN Fit(documents) ELSE vectorizer
       IN
         IF Vocabulary(documents) = <<>>
         THEN /\ call' = [call EXCEPT ![c].pc = "raised"]
              /\ UNCHANGED vectorizer
         ELSE /\ vectorizer' = fitted
              /\ call' = [call EXCEPT
                    ![c].tfidf_matrix = Transform(fitted, documents),
                    ![c].refit = (vectorizer \notin {NotFitted, Fit(documents)}),
                    ![c].pc = "transform"]
    /\ UNCHANGED <<storage, storageOps, pageVars>>

\* tfidf_matrix = self.__vectorizer.fit_transform(documents), in the executor;
\* an empty vocabulary raises ValueError before the vectorizer is changed
ComputeTfidfMatrix(c) ==
    /\ call[c].pc = "fit"
    /\ LET documents == Documents(call[c].profiles) IN
         IF Vocabulary(documents) = <<>>
         THEN /\ call' = [call EXCEPT ![c].pc = "raised"]
              /\ UNCHANGED vectorizer
         ELSE /\ vectorizer' = Fit(documents)
              /\ call' = [call EXCEPT
                    ![c].tfidf_matrix = Transform(Fit(documents), documents),
                    ![c].refit = (vectorizer \notin {NotFitted, Fit(documents)}),
                    ![c].pc = "transform"]
    /\ UNCHANGED <<storage, storageOps, pageVars>>

\* query_vector = self.__vectorizer.transform([query]), in the executor
ComputeQueryVector(c) ==
    /\ call[c].pc = "transform"
    /\ call' = [call EXCEPT
          ![c].query_vector = Transform(vectorizer, <<call[c].query>>)[1],
          ![c].pc = "cosine"]
    /\ UNCHANGED <<storage, storageOps, vectorizer, pageVars>>

\* mutant: search returns what __simple_rank gave it
CosineRankKeepsLexical(c) ==
    /\ call[c].pc = "cosine"
    /\ IF Len(call[c].query_vector) # Len(call[c].tfidf_matrix[1])
       THEN call' = [call EXCEPT ![c].pc = "raised"]
       ELSE call' = [call EXCEPT
                  ![c].cosine_similarities =
                      CosineSimilarity(call[c].query_vector, call[c].tfidf_matrix),
                  ![c].pc = "done"]
    /\ UNCHANGED <<storage, storageOps, vectorizer, pageVars>>

\* cosine_similarity in the executor (ValueError when the two have different
\* numbers of columns), then argsort, the slice and the return of search
CosineRank(c) ==
    /\ call[c].pc = "cosine"
    /\ IF Len(call[c].query_vector) # Len(call[c].tfidf_matrix[1])
       THEN call' = [call EXCEPT ![c].pc = "raised"]
       ELSE LET sims == CosineSimilarity(call[c].query_vector,
                                         call[c].tfidf_matrix)
            IN  call' = [call EXCEPT
                  ![c].cosine_similarities = sims,
                  ![c].ranked_profiles =
                      TopProfiles(call[c].profiles, sims, call[c].top_n),
                  ![c].pc = "done"]
    /\ UNCHANGED <<storage, storageOps, vectorizer, pageVars>>

\* the caller has its result (or its exception); the frame is gone
Return(c) ==
    /\ call[c].pc \in {"done", "raised"}
    /\ call' = [call EXCEPT ![c] = IdleCall]
    /\ UNCHANGED <<storage, storageOps, vectorizer, pageVars>>

\* -------------------------------------------------------------- storage
\* the storage collaborator gains or loses a profile between two reads
AddProfile(u) ==
    /\ storageOps < MaxStorageOps
    /\ u \notin Range(storage)
    /\ storage' = Append(storage, u)
    /\ storageOps' = storageOps + 1
    /\ UNCHANGED <<vectorizer, call, pageVars>>

RemoveProfile(i) ==
    /\ storageOps < MaxStorageOps
    /\ i \in DOMAIN storage
    /\ storage' = [k \in 1..(Len(storage) - 1) |->
                      IF k < i THEN storage[k] ELSE storage[k + 1]]
    /\ storageOps' = storageOps + 1
    /\ UNCHANGED <<vectorizer, call, pageVars>>

\* ---------------------------------------------------------------- specs
\* no invocation is in progress on the engine
Quiet == \A c \in Calls : call[c].pc = "idle"

Step(c, contents) ==
    \/ \E content \in contents : LLMContent(c, content)
    \/ LLMMalformed(c)
    \/ LLMError(c)
    \/ GetProfilesSimple(c)
    \/ SimpleRank(c)
    \/ GetProfilesTfIdf(c)
    \/ ComputeTfidfMatrix(c)
    \/ ComputeQueryVector(c)
    \/ CosineRank(c)
    \/ Return(c)

StorageStep ==
    \/ \E u \in Urls : AddProfile(u)
    \/ \E i \in 1..NumUrls : RemoveProfile(i)

\* invocations one at a time: the next one starts when the last has returned
\* (with one invocation in progress, which frame it uses is immaterial)
Next ==
    \/ /\ Quiet
       /\ \E query \in Queries, top_n \in TopNs : StartSearch(1, query, top_n)
    \/ /\ Quiet
       /\ \E query \in Queries, recursive, recursive_max \in 0..MaxDepthArg :
             StartExpand(1, query, recursive, recursive_max)
    \/ \E c \in Calls : Step(c, Contents)
    \/ StorageStep

Spec == Init /\ [][Next]_vars

\* the inputs of the interleaved invocations
ConcurrentQueries == { <<2, 3, 3>> }
ConcurrentContents == { << <<2, 3>> >> }

InitConcurrent ==
    /\ storage \in {s \in Collections : Len(s) <= 1}
    /\ storageOps = 0
    /\ vectorizer = NotFitted
    /\ call = [c \in Calls |-> IdleCall]
    /\ InitPage

\* any number of invocations at once on the one engine (asyncio tasks)
NextConcurrent ==
    \/ \E c \in Calls, query \in ConcurrentQueries :
          StartSearch(c, query, MaxTopN)
    \/ \E c \in Calls : Step(c, ConcurrentContents)
    \/ StorageStep

SpecConcurrent == InitConcurrent /\ [][NextConcurrent]_vars

\* every external call (completion request, storage fetch, executor job) of
\* an invocation returns in the end, with whatever reply, and the event loop
\* then resumes the coroutine: weak fairness of Step(c, ...).  A step of it
\* is possible exactly while the invocation is not idle, so
\* WF_vars(Step(c, ConcurrentContents)) is written out with that for ENABLED
Fairness ==
    \A c \in Calls :
        \/ []<>(call[c].pc = "idle")
        \/ []<><<Step(c, ConcurrentContents)>>_vars

\* the interleaved invocations over a storage that stays as it is
NextLive ==
    \/ \E c \in Calls, query \in ConcurrentQueries :
          StartSearch(c, query, MaxTopN)
    \/ \E c \in Calls : Step(c, ConcurrentContents)

SpecLive == InitConcurrent /\ [][NextLive]_vars /\ Fairness

\* the storage plays no part in __rank_by_keywords
InitLexical ==
    /\ storage = <<>>
    /\ storageOps = 0
    /\ vectorizer = NotFitted
    /\ call = [c \in Calls |-> IdleCall]
    /\ InitPage

\* __rank_by_keywords on its own, one call at a time
NextLexical ==
    \/ /\ Quiet
       /\ \E profiles \in RankCollections, keywords \in KeywordLists :
             StartRank(1, profiles, keywords)
    \/ RankProfiles(1)
    \/ Return(1)

SpecLexical == InitLexical /\ [][NextLexical]_vars

\* __tf_idf_rank on its own, one call at a time
NextStatistical ==
    \/ /\ Quiet
       /\ \E query \in RankQueries, top_n \in TopNs : StartTfIdf(1, query, top_n)
    \/ GetProfilesTfIdf(1)
    \/ ComputeTfidfMatrix(1)
    \/ ComputeQueryVector(1)
    \/ CosineRank(1)
    \/ Return(1)

SpecStatistical == Init /\ [][NextStatistical]_vars

\* Profile(url): the page is parsed, then __get_main extracts the record
InitExtract ==
    /\ storage = <<>>
    /\ storageOps = 0
    /\ vectorizer = NotFitted
    /\ call = [c \in Calls |-> IdleCall]
    /\ InitPage

NextExtract ==
    \/ \E m \in SingleMarkers, text \in Texts : ParseElement(m, text, MaxElements)
    \/ \E href \in {<<>>} \cup {<<h>> : h \in Hrefs}, place \in AnchorPlaces :
          ParseAnchor(href, place)
    \/ \E place \in ParagraphPlaces, text \in Texts : ParseParagraph(place, text)
    \/ GetMain

SpecExtract == InitExtract /\ [][NextExtract]_vars

\* pages made of the elements the name is read from; a text may be blank
NameMarkers == {"bannername", "titlepart1", "titlepart2", "titlepart3",
                "h1", "profile-name"}
NameTexts == Texts \cup { <<0>> }

NextName ==
    \/ \E m \in NameMarkers, text \in NameTexts :
          ParseElement(m, text, MaxNameElements)
    \/ GetMain

SpecName == InitExtract /\ [][NextName]_vars

\* ================================================================ claims
Finished(c) == call[c].pc \in {"done", "raised"}
IsSearch(c) == call[c].mode = "search"
IsExpand(c) == call[c].mode = "expand"

\* the cosine similarities in the vector space of `profiles` alone
FreshSimilarities(profiles, query) ==
    LET documents == Documents(profiles)
        fitted == Fit(documents)
    IN  CosineSimilarity(Transform(fitted, <<query>>)[1],
                         Transform(fitted, documents))

\* what the statistical ranker gives on an engine that has served no one else
FreshOutcome(profiles, query, top_n) ==
    IF Vocabulary(Documents(profiles)) = <<>>
    THEN <<"raised">>
    ELSE <<"done", TopProfiles(profiles, FreshSimilarities(profiles, query), top_n)>>

Outcome(c) ==
    IF call[c].pc = "raised" THEN <<"raised">>
    ELSE <<"done", call[c].ranked_profiles>>

IndexIn(profiles, u) == CHOOSE i \in DOMAIN profiles : profiles[i] = u

NoRecordTwice(s) == \A i, j \in DOMAIN s : i # j => s[i] # s[j]

\* s is in non-increasing order of the similarity of its records
ByDescendingScore(s, profiles, sims) ==
    \A i, j \in DOMAIN s :
        i < j => sims[IndexIn(profiles, s[i])] >= sims[IndexIn(profiles, s[j])]

\* C1: search on an empty record collection returns an empty sequence and
\* raises no error.  (Stated as the claim; the code raises.)
C1_EmptyCollectionReturnsEmpty ==
    \A c \in Calls :
        (IsSearch(c) /\ Finished(c) /\ call[c].profiles = <<>>)
            => (call[c].pc = "done" /\ call[c].ranked_profiles = <<>>)

\* C2 as stated: for every top_n the returned sequence has length at most
\* top_n (min(top_n, number of records) when top_n >= 0), no record twice,
\* and non-increasing similarity (the scores the invocation computed).
C2_AsStated ==
    \A c \in Calls :
        (IsSearch(c) /\ call[c].pc = "done") =>
            LET f == call[c] IN
            /\ Len(f.ranked_profiles) <= f.top_n
            /\ f.top_n >= 0 => Len(f.ranked_profiles) = Min(f.top_n, Len(f.profiles))
            /\ NoRecordTwice(f.ranked_profiles)
            /\ ByDescendingScore(f.ranked_profiles, f.profiles,
                                 f.cosine_similarities)

\* C2 amended: the returned sequence has min(top_n, number of records)
\* records when top_n >= 0 and all but the last -top_n of them when
\* top_n < 0; for every top_n it holds records of the collection, none
\* twice, in non-increasing order of the cosine similarities the
\* invocation computed.
C2_LengthUniqueOrdered ==
    \A c \in Calls :
        (IsSearch(c) /\ call[c].pc = "done") =>
            LET f == call[c] IN
            /\ f.top_n >= 0 => Len(f.ranked_profiles) = Min(f.top_n, Len(f.profiles))
            /\ f.top_n < 0 =>
                  Len(f.ranked_profiles) = Max(0, Len(f.profiles) + f.top_n)
            /\ Range(f.ranked_profiles) \subseteq Range(f.profiles)
            /\ NoRecordTwice(f.ranked_profiles)
            /\ ByDescendingScore(f.ranked_profiles, f.profiles,
                                 f.cosine_similarities)

\* a search of two records cut to one, the better one second in the collection
C2_Witness ==
    \E c \in Calls :
        /\ IsSearch(c) /\ call[c].pc = "done"
        /\ Len(call[c].profiles) = 2 /\ call[c].top_n = 1
        /\ call[c].ranked_profiles = <<call[c].profiles[2]>>
        /\ call[c].cosine_similarities[2] > call[c].cosine_similarities[1]
        /\ call[c].cosine_similarities[1] > 0

C4_AtMostMaxDepthPlusOne ==
    \A c \in Calls :
        (IsExpand(c) /\ call[c].response \in {"none", "malformed"}) =>
            LET f == call[c] IN
            /\ f.entry_depth = 0 => f.requests <= f.max_depth + 1
            /\ f.entry_depth > f.max_depth => f.requests = 0
            /\ f.pc = "done" => f.keywords = <<>>

\* C5: after a transport error the expansion has returned the empty
\* sequence: no request is outstanding or issued after the failing one and
\* nothing is raised.
C5_TransportErrorEndsExpansion ==
    \A c \in Calls :
        call[c].response = "error" =>
            /\ call[c].keywords = <<>>
            /\ call[c].pc \in {"fetch1", "lex", "done"}
            /\ call[c].answered = call[c].requests

\* a transport error on a retry, in a search that went on to the lexical stage
C5_Witness ==
    \E c \in Calls :
        /\ IsSearch(c) /\ call[c].response = "error"
        /\ call[c].recursive >= 2 /\ call[c].pc = "lex"
        /\ call[c].requests = call[c].recursive + 1

\* C6: with no keywords the lexical stage keeps the records in their input
\* order, and the search of a non-empty collection returns the statistical
\* ranking without error.
C6_NoKeywordsIsNotFatal ==
    /\ [][\A c \in Calls :
            (call[c].pc = "lex" /\ call[c].keywords = <<>> /\ call'[c].pc # "lex")
                => call'[c].ranked_profiles = Slice(call[c].profiles, call[c].top_n)]_vars
    /\ [](\A c \in Calls :
            (IsSearch(c) /\ Finished(c) /\ call[c].no_keywords
               /\ call[c].profiles # <<>>)
                => Outcome(c) = FreshOutcome(call[c].profiles, call[c].query,
                                             call[c].top_n)
                   /\ call[c].pc = "done")

\* a finished search of two records that had no keywords
C6_Witness ==
    \E c \in Calls :
        /\ IsSearch(c) /\ call[c].pc = "done" /\ call[c].no_keywords
        /\ Len(call[c].profiles) = 2
        /\ Len(call[c].lexical) = 2 /\ Len(call[c].ranked_profiles) = 2

\* C7: under every interleaving, the query vector and the outcome of an
\* invocation are those of the vector space fitted from its own collection.
\* (Stated as the claim; the invocations share one vectorizer.)
C7_OwnVectorSpace ==
    \A c \in Calls :
        /\ call[c].pc \in {"cosine", "done"} =>
              call[c].query_vector =
                  Transform(Fit(Documents(call[c].profiles)), <<call[c].query>>)[1]
        /\ (IsSearch(c) /\ Finished(c)) =>
              Outcome(c) = FreshOutcome(call[c].profiles, call[c].query,
                                        call[c].top_n)

\* C8: in every invocation, under every interleaving: while the lexical
\* stage runs and after it, no completion request is outstanding or issued;
\* the statistical stage begins only after the lexical stage has finished.
C8_StagesSequential ==
    \A c \in Calls :
        /\ call[c].stat_begun => call[c].lex_done
        /\ call[c].pc \in {"fit", "transform", "cosine"} => call[c].stat_begun
        /\ (call[c].pc = "lex" \/ call[c].lex_done) =>
              call[c].answered = call[c].requests
        /\ call[c].pc = "lex" => call[c].requests >= 1
        /\ call[c].pc \in {"llm", "fetch1", "lex"} =>
              (~call[c].lex_done /\ ~call[c].stat_begun)
        /\ call[c].pc = "llm" => call[c].requests = call[c].answered + 1

\* one invocation in its statistical stage while another is still retrying
C8_Witness ==
    \E c, d \in Calls :
        /\ c # d
        /\ call[c].pc = "transform" /\ call[c].lex_done
        /\ call[d].pc = "llm" /\ call[d].recursive >= 1

\* C9: run one at a time, after any earlier invocations and storage
\* changes, an invocation's outcome is that of a freshly built vector space
\* over its own current collection: it depends on collection, query and
\* top_n only.
C9_HistoryIndependent ==
    \A c \in Calls :
        (IsSearch(c) /\ Finished(c)) =>
            Outcome(c) = FreshOutcome(call[c].profiles, call[c].query,
                                      call[c].top_n)

\* a finished search on an engine whose vectorizer held another collection's fit
C9_Witness ==
    \E c \in Calls :
        /\ IsSearch(c) /\ call[c].pc = "done" /\ call[c].refit
        /\ Len(call[c].ranked_profiles) = 2

Fields == {"name", "department", "contact", "location", "links", "summary",
           "publications"}

\* the sentinel of a text field, the empty sequence of a list field
Sentinel(field) == IF field \in {"links", "publications"} THEN <<>> ELSE NA

\* the elements by which a field is found
ElementMarkers(field) ==
    CASE field = "name" -> {"bannername", "titlepart1", "titlepart2",
                            "titlepart3", "h1", "profile-name"}
      [] field = "department" -> {"titlepart4", "titlepart5", "department-info"}
      [] field = "contact" -> {"contact-email"}
      [] field = "location" -> {"ot3", "ot5", "ot6", "location-info"}
      [] field = "summary" -> {"summary-text"}
      [] OTHER -> {}

ParagraphMarkers(field) ==
    CASE field = "summary" -> {"#customContent"}
      [] field = "publications" -> {"#latestPubsContainer .latestPubListing",
                                    ".publications-listing"}
      [] OTHER -> {}

IsAnchorMarker(field, a) ==
    CASE field = "contact" -> a.href # <<>> /\ a.href[1] # <<>> /\ Head(a.href[1]) = -1
      [] field = "links" -> a.place \in {"ul.linklist", ".affiliations"}
      [] OTHER -> FALSE

\* the page without any marker of the field
WithoutMarkers(sp, field) ==
    LET Stays(a) == ~IsAnchorMarker(field, a) IN
    [element |-> [m \in SingleMarkers |->
                    IF m \in ElementMarkers(field) THEN <<>> ELSE sp.element[m]],
     anchors |-> SelectSeq(sp.anchors, Stays),
     paragraphs |-> [place \in ParagraphPlaces |->
                    IF place \in ParagraphMarkers(field) THEN <<>>
                    ELSE sp.paragraphs[place]]]

\* C10: a page without any marker of a field extracts to the sentinel of
\* that field ('N/A', or the empty sequence for links and publications),
\* and its other fields are those of the page that has the markers.
\* (Stated as the claim; the code joins no paragraphs to '' for summary.)
C10_MissingMarkersGiveSentinel ==
    constructed =>
        \A field \in Fields :
            LET without == GetMainData(WithoutMarkers(soup, field)) IN
            /\ without[field] = Sentinel(field)
            /\ \A other \in Fields \ {field} : without[other] = profile_data[other]

\* a text string: a sequence of characters (never None)
IsText(v) == v \in Seq(Int)

\* C11: every field of the extracted record is present and well-typed: the
\* five text fields are strings, links is a sequence of url strings and
\* publications a sequence of strings, no element absent or null.  (Stated
\* as the claim; an <a> without href in the link list gives a None element.)
C11_EveryFieldWellTyped ==
    constructed =>
        /\ DOMAIN profile_data = Fields
        /\ \A field \in {"name", "department", "contact", "location", "summary"} :
              IsText(profile_data[field])
        /\ \A k \in DOMAIN profile_data.links :
              /\ profile_data.links[k] # <<>>
              /\ IsText(profile_data.links[k][1])
        /\ \A k \in DOMAIN profile_data.publications :
              IsText(profile_data.publications[k])

\* the href of every <a> inside the place, in document order
TargetsIn(sp, place) ==
    LET Inside(a) == a.place = place
        inside == SelectSeq(sp.anchors, Inside)
    IN  [k \in DOMAIN inside |-> inside[k].href]

\* C12: when the primary container of a field yields nothing and the
\* alternate container is present, links is every hyperlink target inside
\* .affiliations, summary is the text of .summary-text and publications is
\* the text of each item of .publications-listing.  (Stated as the claim;
\* in the code the alternates stand in except branches that nothing enters.)
C12_AlternateContainerUsed ==
    constructed =>
        /\ (TargetsIn(soup, "ul.linklist") = <<>>
              /\ TargetsIn(soup, ".affiliations") # <<>>)
             => profile_data.links = TargetsIn(soup, ".affiliations")
        /\ (soup.paragraphs["#customContent"] = <<>>
              /\ soup.element["summary-text"] # <<>>)
             => profile_data.summary = Strip(soup.element["summary-text"][1])
        /\ (soup.paragraphs["#latestPubsContainer .latestPubListing"] = <<>>
              /\ soup.paragraphs[".publications-listing"] # <<>>)
             => profile_data.publications =
                   [k \in DOMAIN soup.paragraphs[".publications-listing"] |->
                       Strip(soup.paragraphs[".publications-listing"][k])]

BannerRegions == <<"bannername", "titlepart1", "titlepart2", "titlepart3">>
HasElement(m) == soup.element[m] # <<>>
Trimmed(m) == Strip(soup.element[m][1])
AnyBanner == \E k \in DOMAIN BannerRegions : HasElement(BannerRegions[k])

\* the trimmed texts of the banner regions that exist, from region k on,
\* a single space between two of them
RECURSIVE BannerName(_)
BannerName(k) ==
    IF k > Len(BannerRegions) THEN <<>>
    ELSE IF ~HasElement(BannerRegions[k]) THEN BannerName(k + 1)
    ELSE IF \E later \in (k + 1)..Len(BannerRegions) : HasElement(BannerRegions[later])
         THEN Trimmed(BannerRegions[k]) \o <<0>> \o BannerName(k + 1)
    ELSE Trimmed(BannerRegions[k])

\* C13: the name is the trimmed texts of the existing banner regions joined
\* by single spaces in region order (all four when all four exist), else
\* the trimmed text of the h1, else that of .profile-name, else 'N/A'.
C13_NameChain ==
    constructed =>
        /\ AnyBanner => profile_data.name = BannerName(1)
        /\ (\A k \in DOMAIN BannerRegions : HasElement(BannerRegions[k])) =>
              profile_data.name =
                  Trimmed("bannername") \o <<0>> \o Trimmed("titlepart1") \o <<0>>
                    \o Trimmed("titlepart2") \o <<0>> \o Trimmed("titlepart3")
        /\ (~AnyBanner /\ HasElement("h1")) => profile_data.name = Trimmed("h1")
        /\ (~AnyBanner /\ ~HasElement("h1") /\ HasElement("profile-name")) =>
              profile_data.name = Trimmed("profile-name")
        /\ (~AnyBanner /\ ~HasElement("h1") /\ ~HasElement("profile-name")) =>
              profile_data.name = NA

\* a page with all four banner regions, two of them with white space to trim
C13_Witness ==
    /\ constructed
    /\ \A k \in DOMAIN BannerRegions : HasElement(BannerRegions[k])
    /\ soup.element["bannername"][1] = <<0, 6, 0>>
    /\ soup.element["titlepart1"][1] = <<5>>
    /\ soup.element["titlepart2"][1] = <<0, 6, 0>>
    /\ soup.element["titlepart3"][1] = <<5>>
    /\ profile_data.name = <<6, 0, 5, 0, 6, 0, 5>>

\* an <a> whose href starts with the scheme "mailto:"
IsMailLink(a) == a.href # <<>> /\ a.href[1] # <<>> /\ a.href[1][1] = -1
MailLinks == {k \in DOMAIN soup.anchors : IsMailLink(soup.anchors[k])}
FirstMailTarget ==
    soup.anchors[CHOOSE k \in MailLinks : \A other \in MailLinks : k <= other].href[1]

\* C14 as stated: with a mail-link in the page, contact is the target of
\* the first mail-link without its scheme prefix, whether or not
\* .contact-email is present; the container is used only without mail-link.
C14_AsStated ==
    constructed =>
        /\ MailLinks # {} => profile_data.contact = Tail(FirstMailTarget)
        /\ (MailLinks = {} /\ HasElement("contact-email")) =>
              profile_data.contact = Trimmed("contact-email")

\* C14 amended: with a mail-link in the page, contact is the target of the
\* first mail-link with every occurrence of "mailto:" removed and the
\* surrounding white space trimmed, whether or not .contact-email is
\* present; the container is used only without mail-link.
C14_FirstMailLink ==
    constructed =>
        /\ MailLinks # {} =>
              profile_data.contact = Strip(DropMailto(FirstMailTarget))
        /\ (MailLinks = {} /\ HasElement("contact-email")) =>
              profile_data.contact = Trimmed("contact-email")

\* two mail-links with different targets and a .contact-email container
C14_Witness ==
    /\ constructed
    /\ Len(soup.anchors) = 2
    /\ soup.anchors[1].href = << <<-1, 7, 0>> >>
    /\ soup.anchors[2].href = << <<-1, 9, -1>> >>
    /\ HasElement("contact-email")
    /\ profile_data.contact = <<7>>

IsRank(c) == call[c].mode = "rank"
IsTfIdf(c) == call[c].mode = "tfidf"

\* the number of keywords that occur in the text of u, whatever the case
Hits(u, keywords) ==
    Cardinality({i \in DOMAIN keywords :
        IsSubstring(LowerText(keywords[i]), LowerText(TextOf(u)))})

C16_TiesInCollectionOrder ==
    \A c \in Calls :
        (IsTfIdf(c) /\ call[c].pc = "done") =>
            LET f == call[c]
                out == f.ranked_profiles
            IN  \A i, j \in DOMAIN f.profiles :
                  (i < j /\ f.cosine_similarities[i] = f.cosine_similarities[j]
                     /\ f.profiles[j] \in Range(out)) =>
                        /\ f.profiles[i] \in Range(out)
                        /\ IndexIn(out, f.profiles[i]) < IndexIn(out, f.profiles[j])

\* C17: a record whose scoring fails is skipped: __rank_by_keywords returns
\* normally, with exactly the records whose scoring succeeded, each once.
\* (Stated as the claim; the handler of the failure raises itself.)
C17_FailedScoringSkipped ==
    \A c \in Calls :
        (IsRank(c) /\ Finished(c)) =>
            /\ call[c].pc = "done"
            /\ NoRecordTwice(call[c].ranked_profiles)
            /\ Range(call[c].ranked_profiles) = Range(call[c].profiles) \ Unscorable

\* C18: within one search the collection is fetched once, after keyword
\* expansion, and the statistical ranker works on the collection the lexical
\* ranker had, whatever happens to the storage meanwhile.  (Stated as the
\* claim; __tf_idf_rank calls get_profiles again.)
C18_OneFetchForBothRankers ==
    [][\A c \in Calls :
          (IsSearch(c) /\ call[c].lex_done /\ call'[c].pc = "fit")
              => call'[c].profiles = call[c].profiles]_vars

\* C19: every search returns in the end (a result or an error) when each of
\* its external calls returns: whatever the replies, it issues at most
\* max_depth + 1 completion requests.
C19_SearchReturns ==
    /\ [](\A c \in Calls :
            IsSearch(c) => call[c].requests <= call[c].max_depth + 1)
    /\ \A c \in Calls : IsSearch(c) ~> Finished(c)

\* one search has returned while another gave up expanding after the last
\* retry allowed, every reply malformed
C19_Witness ==
    \E c, d \in Calls :
        /\ c # d
        /\ IsSearch(c) /\ call[c].pc = "done"
        /\ IsSearch(d) /\ call[d].pc = "fetch1"
        /\ call[d].response = "malformed"
        /\ call[d].requests = call[d].max_depth + 1
        /\ call[d].answered = call[d].requests

====
